---- MODULE Spec2Model ----
(***************************************************************************)
(* A model of tools/FetchMacOS/fetch-macos.py: the catalog registry        *)
(* (SoftwareService), the OS-install candidate search (getosinstall), the  *)
(* product view (MacOSProduct), the package downloader (fetchpackages,     *)
(* download_file, check_directory) and the command line entry point        *)
(* (fetchmacos).                                                           *)
(*                                                                         *)
(* Text that the program searches or splits (versions, URLs, keywords) is  *)
(* a sequence of one-character strings; text it only compares or passes    *)
(* on (catalog URLs, product ids, option values) is a TLA+ string.         *)
(* A Python dict is a function; a key that is missing is missing from the  *)
(* function's DOMAIN.                                                      *)
(***************************************************************************)
EXTENDS Integers, Sequences, FiniteSets, TLC

VARIABLES
    argv,          \* the command line options, as click hands them over
    pc,            \* the position of the run
    catalog_url,   \* SoftwareService.catalog_url
    catalog_data,  \* SoftwareService.catalog_data, the raw catalog
    ospackages,    \* getosinstall: the products that passed the marker filter
    candidates,    \* getosinstall: the products that passed the version test
    scanned,       \* getosinstall: how many of ospackages the loop has done
    product_id,    \* fetchmacos: the local product_id
    product,       \* MacOSProduct.product
    path,          \* fetchpackages: the target directory
    keyword,       \* fetchpackages: the keyword
    item,          \* fetchpackages: the position in the package list
    remote,        \* download_file: the open streamed response
    fs,            \* the file system: path -> node
    fs0,           \* the file system before the run
    io,            \* the requests and calls made so far, in order
    outcome        \* how the process ended, if it has

vars == <<argv, pc, catalog_url, catalog_data, ospackages, candidates,
          scanned, product_id, product, path, keyword, item, remote, fs, fs0, io,
          outcome>>

-----------------------------------------------------------------------------
(* Bounds of the model *)

\* products in a catalog
MaxProducts == 2
\* packages in a product
MaxPackages == 2
\* check_directory calls in a row
MaxCalls == 2

-----------------------------------------------------------------------------
(* Python values *)

None == [none |-> TRUE]

\* {} : the default of dict.get in getosinstall
EmptyDict == [x \in {} |-> 0]

\* dict.get(key, {})
Get(d, key) == IF key \in DOMAIN d THEN d[key] ELSE EmptyDict

\* a Python str that the program compares with ==
Str(s) == [str |-> s]

\* a Python str that the program searches, as its characters
Txt(cs) == [txt |-> cs]

IsTxt(v) == DOMAIN v = {"txt"}

\* needle in hay, for two str: scan the offsets of hay for a copy of needle
StrContains(needle, hay) ==
    LET n == Len(needle)
        h == Len(hay)
        at[k \in 0..h] ==
            IF k + n > h THEN FALSE
            ELSE IF SubSeq(hay, k + 1, k + n) = needle THEN TRUE
            ELSE at[k + 1]
    IN  at[0]

\* url.split('/'): the pieces between the slashes, empty pieces kept
RECURSIVE Split(_)
Split(s) ==
    IF \A k \in 1..Len(s) : s[k] # "/" THEN <<s>>
    ELSE LET k == CHOOSE j \in 1..Len(s) :
                      s[j] = "/" /\ \A m \in 1..(j - 1) : s[m] # "/"
         IN  <<SubSeq(s, 1, k - 1)>> \o Split(SubSeq(s, k + 1, Len(s)))

\* seq[-1]
LastOf(seq) == seq[Len(seq)]

Front(seq) == SubSeq(seq, 1, Len(seq) - 1)

-----------------------------------------------------------------------------
(* The file system.  A path is the sequence of its components, the working *)
(* directory being <<>>; fs maps the paths that exist to their nodes.  A   *)
(* "rodir" is a directory in which the process may not create entries.     *)

Dir == [kind |-> "dir", data |-> None]
RoDir == [kind |-> "rodir", data |-> None]
File(data) == [kind |-> "file", data |-> data]

IsDir(f, p) == p \in DOMAIN f /\ f[p].kind \in {"dir", "rodir"}

\* os.mkdir(p): the error it raises, "" when it creates the directory
MkdirErr(f, p) ==
    IF Front(p) \notin DOMAIN f THEN "ENOENT"
    ELSE IF f[Front(p)].kind = "file" THEN "ENOTDIR"
    ELSE IF p \in DOMAIN f THEN "EEXIST"
    ELSE IF f[Front(p)].kind = "rodir" THEN "EACCES"
    ELSE ""

Mkdir(f, p) ==
    IF MkdirErr(f, p) = "" THEN [fs |-> (p :> Dir) @@ f, err |-> ""]
    ELSE [fs |-> f, err |-> MkdirErr(f, p)]

\* os.makedirs(p): the missing ancestors first (an ancestor that turns out
\* to exist is passed over), then the leaf with os.mkdir
RECURSIVE Makedirs(_, _)
Makedirs(f, p) ==
    LET head == Front(p)
        up == IF head # <<>> /\ head \notin DOMAIN f
              THEN Makedirs(f, head)
              ELSE [fs |-> f, err |-> ""]
    IN  IF up.err \notin {"", "EEXIST"} THEN up ELSE Mkdir(up.fs, p)

\* Filesystem.check_directory(path): the file system after the call and
\* the OSError it lets through ("" when it returns)
check_directory(f, p) ==
    LET r == Makedirs(f, p)
    IN  [fs |-> r.fs,
         raised |-> IF r.err # "" /\ r.err # "EEXIST" THEN r.err ELSE ""]

\* open(os.path.join(dir, label), 'wb'): the error it raises, "" when the
\* file is created or truncated
OpenErr(f, dir, label) ==
    IF dir \notin DOMAIN f THEN "ENOENT"
    ELSE IF f[dir].kind = "file" THEN "ENOTDIR"
    ELSE IF label = <<>> THEN "EISDIR"
    ELSE IF (dir \o <<label>>) \in DOMAIN f
         THEN (IF IsDir(f, dir \o <<label>>) THEN "EISDIR" ELSE "")
    ELSE IF f[dir].kind = "rodir" THEN "EACCES"
    ELSE ""

-----------------------------------------------------------------------------
(* Documents and the network *)

\* the bytes of a well-formed property list holding doc, and bytes that
\* are no property list
Plist(doc) == [kind |-> "plist", doc |-> doc]
Garbage == [kind |-> "garbage"]

\* Filesystem.parse_plist(catalog_data): plistlib.loads raises on bytes
\* that are no property list
CanParse(raw) == raw.kind = "plist"
parse_plist(raw) == raw.doc

\* an HTTP response; requests.get returns it whatever its status is
Response(status, body) == [status |-> status, body |-> body]

\* a dict that keeps its keys in document order: a sequence of
\* [id, val] entries with distinct ids
Keys(d) == [i \in DOMAIN d |-> d[i].id]
HasKey(d, id) == \E i \in DOMAIN d : d[i].id = id
Lookup(d, id) == d[CHOOSE i \in DOMAIN d : d[i].id = id].val

\* "BaseSystem"
BaseSystem == <<"B", "a", "s", "e", "S", "y", "s", "t", "e", "m">>
\* ".dmg"
DotDmg == <<".", "d", "m", "g">>

\* the URLs of packages
\* "a/BaseSystem.dmg"
UrlBaseA == <<"a", "/", "B", "a", "s", "e", "S", "y", "s", "t", "e", "m", ".", "d", "m", "g">>
\* "b/BaseSystem.dmg"
UrlBaseB == <<"b", "/", "B", "a", "s", "e", "S", "y", "s", "t", "e", "m", ".", "d", "m", "g">>
\* "a/BaseSystem.chunklist"
UrlChunk == <<"a", "/", "B", "a", "s", "e", "S", "y", "s", "t", "e", "m", ".", "c", "h", "u", "n", "k", "l", "i", "s", "t">>
\* "a/AppleDiagnostics.dmg"
UrlDiag == <<"a", "/", "A", "p", "p", "l", "e", "D", "i", "a", "g", "n", "o", "s", "t", "i", "c", "s", ".", "d", "m", "g">>
\* "BaseSystem/InstallInfo.plist"
UrlInfo == <<"B", "a", "s", "e", "S", "y", "s", "t", "e", "m", "/", "I", "n", "s", "t", "a", "l", "l", "I", "n", "f", "o", ".", "p", "l", "i", "s", "t">>
\* "Base/System.dmg"
UrlSplit == <<"B", "a", "s", "e", "/", "S", "y", "s", "t", "e", "m", ".", "d", "m", "g">>
\* "a/BaseSystem/"
UrlSlash == <<"a", "/", "B", "a", "s", "e", "S", "y", "s", "t", "e", "m", "/">>
\* "InstallESDDmg.pkg"
UrlBare == <<"I", "n", "s", "t", "a", "l", "l", "E", "S", "D", "D", "m", "g", ".", "p", "k", "g">>

PackageUrls ==
    {UrlBaseA, UrlBaseB, UrlChunk, UrlDiag, UrlInfo, UrlSplit, UrlSlash,
     UrlBare}

\* a package of a product: item.get("URL") (item.get("Size") only sizes
\* the progress bar)
Package(url) == [URL |-> Txt(url)]

\* the version strings of per-product metadata
\* "10.15"
V1015 == <<"1", "0", ".", "1", "5">>
\* "10.15.1"
V10151 == <<"1", "0", ".", "1", "5", ".", "1">>
\* "10.15.4"
V10154 == <<"1", "0", ".", "1", "5", ".", "4">>
\* "10.1.5"
V1015dot == <<"1", "0", ".", "1", ".", "5">>
\* "10.14.6"
V10146 == <<"1", "0", ".", "1", "4", ".", "6">>
\* "10.14"
V1014 == <<"1", "0", ".", "1", "4">>
\* "10.13"
V1013 == <<"1", "0", ".", "1", "3">>
\* "10.12"
V1012 == <<"1", "0", ".", "1", "2">>

MetadataVersions == {V1015, V10151, V10154, V1015dot, V10146}

\* the per-product metadata documents a server may hold
MetadataDocs ==
    {EmptyDict} \cup
    {[CFBundleShortVersionString |-> Txt(v)] : v \in MetadataVersions}

\* what a request for a property list may meet: a failed connection
\* (requests raises) or a response
ConnectionError == [raises |-> "ConnectionError"]

MetadataReplies ==
    {ConnectionError} \cup
    {Response(200, Plist(d)) : d \in MetadataDocs} \cup
    {Response(200, Garbage), Response(404, Garbage)}

\* what a request for a package may meet
PackageReplies(url) ==
    {ConnectionError,
     Response(200, [bytes |-> "package", of |-> url]),
     Response(404, [bytes |-> "error page", of |-> url])}

-----------------------------------------------------------------------------
(* SoftwareService *)

\* SoftwareService.catalogs
catalogs ==
    (V1015 :>
        [CustomerSeed |-> "https://swscan.apple.com/content/catalogs/others/index-10.15customerseed-10.15-10.14-10.13-10.12-10.11-10.10-10.9-mountainlion-lion-snowleopard-leopard.merged-1.sucatalog",
         DeveloperSeed |-> "https://swscan.apple.com/content/catalogs/others/index-10.15seed-10.15-10.14-10.13-10.12-10.11-10.10-10.9-mountainlion-lion-snowleopard-leopard.merged-1.sucatalog",
         PublicSeed |-> "https://swscan.apple.com/content/catalogs/others/index-10.15beta-10.15-10.14-10.13-10.12-10.11-10.10-10.9-mountainlion-lion-snowleopard-leopard.merged-1.sucatalog",
         PublicRelease |-> "https://swscan.apple.com/content/catalogs/others/index-10.15-10.14-10.13-10.12-10.11-10.10-10.9-mountainlion-lion-snowleopard-leopard.merged-1.sucatalog"])
    @@
    (V1014 :>
        [PublicRelease |-> "https://swscan.apple.com/content/catalogs/others/index-10.14-10.13-10.12-10.11-10.10-10.9-mountainlion-lion-snowleopard-leopard.merged-1.sucatalog"])
    @@
    (V1013 :>
        [PublicRelease |-> "https://swscan.apple.com/content/catalogs/others/index-10.13-10.12-10.11-10.10-10.9-mountainlion-lion-snowleopard-leopard.merged-1.sucatalog"])

\* SoftwareService.__init__: self.catalogs.get(version).get(catalog_id).
\* The outer get gives None for a version that is no key, and None has no
\* get: AttributeError.  The inner get gives None for a missing channel.
ServiceInit(version, id) ==
    IF version \notin DOMAIN catalogs
    THEN [raised |-> "AttributeError", catalog_url |-> None]
    ELSE [raised |-> "",
          catalog_url |-> IF id \in DOMAIN catalogs[version]
                          THEN Str(catalogs[version][id])
                          ELSE None]

\* 'com.apple.mpkg.OSInstall'
OSInstallMarker == "com.apple.mpkg.OSInstall"

\* the test of the first stage with the comparison dropped: any OSInstall
\* entry counts
IsOSInstallAnyValue(products, id) ==
    Get(Get(Get(Lookup(products, id), "ExtendedMetaInfo"),
            "InstallAssistantPackageIdentifiers"),
        "OSInstall") # EmptyDict

\* getosinstall, the test of the first stage on one product key
IsOSInstall(products, id) ==
    Get(Get(Get(Lookup(products, id), "ExtendedMetaInfo"),
            "InstallAssistantPackageIdentifiers"),
        "OSInstall") = Str(OSInstallMarker)

\* getosinstall, the first stage: the product keys that pass the test, in
\* the order the dict yields them
RECURSIVE OSPackagesFrom(_, _)
OSPackagesFrom(products, i) ==
    IF i > Len(products) THEN <<>>
    ELSE (IF IsOSInstall(products, products[i].id)
          THEN <<products[i].id>> ELSE <<>>)
         \o OSPackagesFrom(products, i + 1)

\* self.version == <CFBundleShortVersionString or {}>: equality in place
\* of the substring test
VersionEquals(version, v) ==
    IF IsTxt(v) THEN version = v.txt ELSE FALSE

\* self.version in <CFBundleShortVersionString or {}>: a substring test on
\* a str, a key test on the empty dict
VersionIn(version, v) ==
    IF IsTxt(v) THEN StrContains(version, v.txt) ELSE FALSE

\* how the process ends
Running == [status |-> "running", error |-> ""]
Uncaught(err) == [status |-> "uncaught", error |-> err]
Exit(code) == [status |-> "exit", error |-> code]

\* one more entry in the record of requests and calls
Logged(log, e) == Append(log, e)

-----------------------------------------------------------------------------
(* MacOSProduct *)

\* MacOSProduct.__init__ with products.get(product_id, {}) in place of
\* products[product_id]: a missing product id no longer raises
ProductInitLenient(raw, id) ==
    IF ~CanParse(raw)
    THEN [raised |-> "InvalidFileException", product |-> None]
    ELSE IF "Products" \notin DOMAIN parse_plist(raw)
            \/ "IndexDate" \notin DOMAIN parse_plist(raw)
    THEN [raised |-> "KeyError", product |-> None]
    ELSE [raised |-> "",
          product |-> IF HasKey(parse_plist(raw).Products, id)
                      THEN Lookup(parse_plist(raw).Products, id)
                      ELSE EmptyDict]

\* MacOSProduct.__init__(catalog, product_id): root['Products'],
\* root['IndexDate'] and products[product_id] each raise KeyError on a
\* missing key; parse_plist raises on bytes that are no property list
ProductInit(raw, id) ==
    IF ~CanParse(raw)
    THEN [raised |-> "InvalidFileException", product |-> None]
    ELSE IF "Products" \notin DOMAIN parse_plist(raw)
    THEN [raised |-> "KeyError", product |-> None]
    ELSE IF "IndexDate" \notin DOMAIN parse_plist(raw)
    THEN [raised |-> "KeyError", product |-> None]
    ELSE IF ~HasKey(parse_plist(raw).Products, id)
    THEN [raised |-> "KeyError", product |-> None]
    ELSE [raised |-> "",
          product |-> Lookup(parse_plist(raw).Products, id)]

\* bool(keyword): None and the empty str are false
Truthy(kw) == kw # None /\ kw.txt # <<>>

\* download_file with label = url.split('/')[0]: the first piece
LabelFirstPiece(url) == Split(url)[1]

\* download_file: label = url.split('/')[-1]
Label(url) == LastOf(Split(url))

\* fetchpackages with the keyword tested against the file name only
SelectedByLabel(kw, pkg) ==
    IF Truthy(kw) THEN StrContains(kw.txt, Label(pkg.URL.txt)) ELSE TRUE

\* fetchpackages: whether the loop hands the package to download_file
Selected(kw, pkg) ==
    IF Truthy(kw) THEN StrContains(kw.txt, pkg.URL.txt) ELSE TRUE

-----------------------------------------------------------------------------
(* The inputs the model draws from *)

StdPackages == <<Package(UrlBaseA), Package(UrlDiag)>>

MetadataUrl(id) == [url |-> "ServerMetadataURL", of |-> id]

MarkerInfo(v) ==
    [InstallAssistantPackageIdentifiers |-> [OSInstall |-> Str(v)]]

Field(name, present, v) == IF present THEN name :> v ELSE EmptyDict

\* the products of the catalogs a whole run is given
CliProducts(id) ==
    {[Packages |-> StdPackages],
     [ExtendedMetaInfo |-> MarkerInfo(OSInstallMarker),
      ServerMetadataURL |-> MetadataUrl(id),
      Packages |-> StdPackages],
     [ExtendedMetaInfo |-> MarkerInfo(OSInstallMarker),
      ServerMetadataURL |-> MetadataUrl(id)],
     [ExtendedMetaInfo |-> MarkerInfo(OSInstallMarker),
      Packages |-> StdPackages]}

\* the products of the catalogs getosinstall is given: every shape of the
\* marker path, with and without a metadata URL
ExtendedMetaInfos ==
    {EmptyDict,
     [InstallAssistantPackageIdentifiers |-> EmptyDict],
     MarkerInfo("com.apple.pkg.InstallAssistantAuto"),
     MarkerInfo(OSInstallMarker)}

MarkedProducts(id) ==
    {Field("ExtendedMetaInfo", e # None, e)
        @@ Field("ServerMetadataURL", u, MetadataUrl(id)) :
        e \in ExtendedMetaInfos \cup {None}, u \in BOOLEAN}

\* the Products dicts of up to n entries, entry i under the key ToString(i)
\* and drawn from pools[i]
RECURSIVE ProductDicts(_, _)
ProductDicts(pools, n) ==
    IF n = 0 THEN {<<>>}
    ELSE LET shorter == ProductDicts(pools, n - 1)
         IN  shorter \cup
             {Append(d, [id |-> ToString(n), val |-> v]) :
                 d \in {t \in shorter : Len(t) = n - 1}, v \in pools[n]}

\* the catalog bodies a whole run may receive
CliRoots ==
    {Field("Products", hp, d) @@ Field("IndexDate", hd, Str("2019-10-07")) :
        d \in ProductDicts([n \in 1..MaxProducts |-> CliProducts(ToString(n))],
                           MaxProducts),
        hp \in BOOLEAN, hd \in BOOLEAN}

CatalogReplies ==
    {ConnectionError} \cup
    {Response(st, b) :
        st \in {200, 404}, b \in {Plist(r) : r \in CliRoots} \cup {Garbage}}

ProductIdOptions == {""} \cup {ToString(i) : i \in 1..(MaxProducts + 1)}

\* "BaseSystem/", the default of --output-dir
OutputDir == <<BaseSystem>>

OldFile == File([bytes |-> "old", of |-> <<>>])

\* the file systems a run may start in
Worlds ==
    {(<<>> :> Dir),
     (<<>> :> Dir) @@ (OutputDir :> Dir)
        @@ ((OutputDir \o <<Label(UrlBaseA)>>) :> OldFile),
     (<<>> :> Dir) @@ (OutputDir :> OldFile),
     (<<>> :> Dir) @@ (OutputDir :> RoDir),
     (<<>> :> RoDir)}

\* the sub-directory "out" of the output directory
OutSub == <<"o", "u", "t">>

\* the directories check_directory is called on, and the file systems it
\* may meet there
DirPaths == {OutputDir, OutputDir \o <<OutSub>>}

DirWorlds ==
    {(<<>> :> root) : root \in {Dir, RoDir}} \cup
    {(<<>> :> root) @@ (OutputDir :> OldFile) : root \in {Dir, RoDir}} \cup
    {(<<>> :> root) @@ (OutputDir :> top) :
        root \in {Dir, RoDir}, top \in {Dir, RoDir}} \cup
    {(<<>> :> root) @@ (OutputDir :> top) @@ ((OutputDir \o <<OutSub>>) :> sub) :
        root \in {Dir, RoDir}, top \in {Dir, RoDir},
        sub \in {Dir, RoDir, OldFile}}

\* the keywords fetchpackages is called with
Keywords == {None, Txt(<<>>), Txt(BaseSystem), Txt(DotDmg)}

\* the package lists of up to n packages
RECURSIVE PackageLists(_)
PackageLists(n) ==
    IF n = 0 THEN {<<>>}
    ELSE LET shorter == PackageLists(n - 1)
         IN  shorter \cup
             {Append(l, Package(u)) :
                 l \in {t \in shorter : Len(t) = n - 1}, u \in PackageUrls}

\* what a call of check_directory leaves in the record: the path, what was
\* there, the error of os.makedirs and the error the call let through
DirCall(f, p) ==
    [ev |-> "check_directory", path |-> p,
     was |-> IF p \in DOMAIN f THEN f[p].kind ELSE "absent",
     err |-> Makedirs(f, p).err,
     raised |-> check_directory(f, p).raised]

-----------------------------------------------------------------------------
(* fetchmacos, step by step *)

\* remote = SoftwareService(catalog_version, catalog_id)
NewSoftwareService ==
    /\ pc = "start"
    /\ LET r == ServiceInit(argv.catalog_version, argv.catalog_id)
       IN  /\ catalog_url' = r.catalog_url
           /\ outcome' = IF r.raised # "" THEN Uncaught(r.raised) ELSE outcome
           /\ pc' = IF r.raised # "" THEN "halt" ELSE "getcatalog"
    /\ UNCHANGED <<argv, catalog_data, ospackages, candidates, scanned,
                   product_id, product, path, keyword, item, remote, fs, fs0,
                   io>>

\* catalog = remote.getcatalog(): fetch_plist(self.catalog_url).  requests
\* refuses a URL that is None before it sends anything
GetCatalog ==
    /\ pc = "getcatalog"
    /\ IF catalog_url = None
       THEN /\ outcome' = Uncaught("MissingSchema")
            /\ pc' = "halt"
            /\ UNCHANGED <<catalog_data, io>>
       ELSE \E reply \in CatalogReplies :
            /\ io' = Logged(io, [ev |-> "get", site |-> "fetch_plist",
                                 url |-> catalog_url, reply |-> reply])
            /\ outcome' = IF reply = ConnectionError
                          THEN Uncaught("ConnectionError") ELSE outcome
            /\ catalog_data' = IF reply = ConnectionError
                               THEN catalog_data ELSE reply.body
            /\ pc' = IF reply = ConnectionError THEN "halt"
                     ELSE IF product_id = "" THEN "getosinstall"
                     ELSE "build"
    /\ UNCHANGED <<argv, catalog_url, ospackages, candidates, scanned,
                   product_id, product, path, keyword, item, remote, fs, fs0>>

\* getosinstall up to its loop: parse the catalog, take root['Products'],
\* build ospackages
GetOSInstallFilter ==
    /\ pc = "getosinstall"
    /\ LET raised == IF ~CanParse(catalog_data) THEN "InvalidFileException"
                     ELSE IF "Products" \notin DOMAIN parse_plist(catalog_data)
                     THEN "KeyError" ELSE ""
           found == IF raised # "" THEN <<>>
                    ELSE OSPackagesFrom(parse_plist(catalog_data).Products, 1)
       IN  /\ ospackages' = found
           /\ candidates' = <<>>
           /\ scanned' = 0
           /\ outcome' = IF raised # "" THEN Uncaught(raised) ELSE outcome
           /\ pc' = IF raised # "" THEN "halt"
                    ELSE IF found = <<>> THEN "osinstall_done"
                    ELSE "osinstall_loop"
    /\ UNCHANGED <<argv, catalog_url, catalog_data, product_id, product, path,
                   keyword, item, remote, fs, fs0, io>>

\* one turn of the loop of getosinstall: fetch and parse the metadata of
\* the next product, test its version, and return after the last one.
\* A product without ServerMetadataURL gives requests the default {} as
\* URL, which it refuses
GetOSInstallStep ==
    /\ pc = "osinstall_loop"
    /\ LET id == ospackages[scanned + 1]
           meta_url == Get(Lookup(parse_plist(catalog_data).Products, id),
                           "ServerMetadataURL")
       IN  IF meta_url = EmptyDict
           THEN /\ outcome' = Uncaught("MissingSchema")
                /\ pc' = "halt"
                /\ UNCHANGED <<candidates, scanned, io>>
           ELSE \E reply \in MetadataReplies :
                LET raised == IF reply = ConnectionError THEN "ConnectionError"
                              ELSE IF ~CanParse(reply.body)
                              THEN "InvalidFileException" ELSE ""
                    hit == raised = ""
                           /\ VersionIn(argv.catalog_version,
                                        Get(parse_plist(reply.body),
                                            "CFBundleShortVersionString"))
                IN  /\ io' = Logged(io, [ev |-> "get", site |-> "fetch_plist",
                                         url |-> meta_url, reply |-> reply])
                    /\ outcome' = IF raised # "" THEN Uncaught(raised)
                                  ELSE outcome
                    /\ candidates' = IF hit THEN Append(candidates, id)
                                     ELSE candidates
                    /\ scanned' = IF raised # "" THEN scanned ELSE scanned + 1
                    /\ pc' = IF raised # "" THEN "halt"
                             ELSE IF scanned + 1 = Len(ospackages)
                             THEN "osinstall_done"
                             ELSE "osinstall_loop"
    /\ UNCHANGED <<argv, catalog_url, catalog_data, ospackages, product_id,
                   product, path, keyword, item, remote, fs, fs0>>

\* remote.getosinstall()[-1]: the last candidate in place of the first
LastCandidate(cs) == cs[Len(cs)]

\* the candidate fetchmacos takes from the list getosinstall returned
FirstCandidate(cs) == cs[1]

\* product_id = remote.getosinstall()[0]: IndexError on an empty list
SelectCandidate ==
    /\ pc = "osinstall_done"
    /\ product_id' = IF candidates = <<>> THEN product_id
                     ELSE FirstCandidate(candidates)
    /\ outcome' = IF candidates = <<>> THEN Uncaught("IndexError")
                  ELSE outcome
    /\ pc' = IF candidates = <<>> THEN "halt" ELSE "build"
    /\ UNCHANGED <<argv, catalog_url, catalog_data, ospackages, candidates,
                   scanned, product, path, keyword, item, remote, fs, fs0, io>>

\* try: product = MacOSProduct(catalog, product_id); except KeyError:
\* print, exit(1).  Then the call product.fetchpackages(output_dir,
\* keyword="BaseSystem") is entered
NewMacOSProduct ==
    /\ pc = "build"
    /\ LET r == ProductInit(catalog_data, product_id)
       IN  /\ product' = r.product
           /\ outcome' = IF r.raised = "KeyError" THEN Exit("1")
                         ELSE IF r.raised # "" THEN Uncaught(r.raised)
                         ELSE outcome
           /\ io' = IF r.raised = "KeyError"
                    THEN Logged(io, [ev |-> "print",
                                     text |-> "Product ID could not be found",
                                     id |-> product_id])
                    ELSE io
           /\ pc' = IF r.raised # "" THEN "halt" ELSE "fetchpackages"
           /\ path' = IF r.raised # "" THEN path ELSE argv.output_dir
           /\ keyword' = IF r.raised # "" THEN keyword ELSE Txt(BaseSystem)
    /\ UNCHANGED <<argv, catalog_url, catalog_data, ospackages, candidates,
                   scanned, product_id, item, remote, fs, fs0>>

\* fetchpackages up to its loop: check_directory(path), then
\* self.product['Packages'] (KeyError on a product without packages)
FetchPackagesEnter ==
    /\ pc = "fetchpackages"
    /\ LET r == check_directory(fs, path)
           raised == IF r.raised # "" THEN r.raised
                     ELSE IF "Packages" \notin DOMAIN product THEN "KeyError"
                     ELSE ""
       IN  /\ fs' = r.fs
           /\ io' = Logged(io, DirCall(fs, path))
           /\ outcome' = IF raised # "" THEN Uncaught(raised) ELSE outcome
           /\ item' = 1
           /\ pc' = IF raised # "" THEN "halt"
                    ELSE IF product.Packages = <<>> THEN "fetch_done"
                    ELSE "fetch_loop"
    /\ UNCHANGED <<argv, catalog_url, catalog_data, ospackages, candidates,
                   scanned, product_id, product, path, keyword, remote, fs0>>

\* one turn of the loop of fetchpackages: a package the keyword rejects is
\* passed over; for any other, download_file sends its request
FetchNext ==
    /\ pc = "fetch_loop"
    /\ LET pkg == product.Packages[item]
       IN  IF Selected(keyword, pkg)
           THEN \E reply \in PackageReplies(pkg.URL.txt) :
                /\ io' = Logged(io, [ev |-> "get", site |-> "download_file",
                                     url |-> pkg.URL, reply |-> reply])
                /\ outcome' = IF reply = ConnectionError
                              THEN Uncaught("ConnectionError") ELSE outcome
                /\ remote' = IF reply = ConnectionError THEN remote ELSE reply
                /\ pc' = IF reply = ConnectionError THEN "halt"
                         ELSE "download"
                /\ item' = item
           ELSE /\ item' = item + 1
                /\ pc' = IF item = Len(product.Packages) THEN "fetch_done"
                         ELSE "fetch_loop"
                /\ UNCHANGED <<io, outcome, remote>>
    /\ UNCHANGED <<argv, catalog_url, catalog_data, ospackages, candidates,
                   scanned, product_id, product, path, keyword, fs, fs0>>

\* the rest of download_file: open the file for writing, write the body
\* of the response into it, close it and return
DownloadWrite ==
    /\ pc = "download"
    /\ LET url == product.Packages[item].URL.txt
           err == OpenErr(fs, path, Label(url))
           filename == path \o <<Label(url)>>
       IN  /\ fs' = IF err # "" THEN fs
                    ELSE (filename :> File(remote.body)) @@ fs
           /\ io' = IF err # "" THEN io
                    ELSE Logged(io, [ev |-> "wrote", filename |-> filename,
                                     url |-> Txt(url)])
           /\ outcome' = IF err # "" THEN Uncaught(err) ELSE outcome
           /\ remote' = None
           /\ item' = IF err # "" THEN item ELSE item + 1
           /\ pc' = IF err # "" THEN "halt"
                    ELSE IF item = Len(product.Packages) THEN "fetch_done"
                    ELSE "fetch_loop"
    /\ UNCHANGED <<argv, catalog_url, catalog_data, ospackages, candidates,
                   scanned, product_id, product, path, keyword, fs0>>

\* fetchpackages has returned and fetchmacos ends: exit status 0
Finish ==
    /\ pc = "fetch_done"
    /\ outcome' = Exit("0")
    /\ pc' = "halt"
    /\ UNCHANGED <<argv, catalog_url, catalog_data, ospackages, candidates,
                   scanned, product_id, product, path, keyword, item, remote,
                   fs, fs0, io>>

\* the state fetchmacos starts in, for every choice of options
Init ==
    /\ argv \in [output_dir : {OutputDir},
                 catalog_version : {V1015, V1014, V1012},
                 catalog_id : {"PublicRelease", "DeveloperSeed"},
                 product_id : ProductIdOptions]
    /\ pc = "start"
    /\ catalog_url = None
    /\ catalog_data = Garbage
    /\ ospackages = <<>>
    /\ candidates = <<>>
    /\ scanned = 0
    /\ product_id = argv.product_id
    /\ product = None
    /\ path = <<>>
    /\ keyword = None
    /\ item = 0
    /\ remote = None
    /\ fs \in Worlds
    /\ fs0 = fs
    /\ io = <<>>
    /\ outcome = Running

Next ==
    \/ NewSoftwareService
    \/ GetCatalog
    \/ GetOSInstallFilter
    \/ GetOSInstallStep
    \/ SelectCandidate
    \/ NewMacOSProduct
    \/ FetchPackagesEnter
    \/ FetchNext
    \/ DownloadWrite
    \/ Finish

Spec == Init /\ [][Next]_vars

-----------------------------------------------------------------------------
(* getosinstall on its own: a SoftwareService that has fetched a catalog *)

OSInstallRoots ==
    {[Products |-> d, IndexDate |-> Str("2019-10-07")] :
        d \in ProductDicts([n \in 1..MaxProducts |-> MarkedProducts(ToString(n))],
                           MaxProducts)}

InitOSInstall ==
    /\ argv \in [output_dir : {OutputDir},
                 catalog_version : {V1015, V1014},
                 catalog_id : {"PublicRelease"},
                 product_id : {""}]
    /\ pc = "getosinstall"
    /\ catalog_url = ServiceInit(argv.catalog_version, argv.catalog_id).catalog_url
    /\ catalog_data \in {Plist(r) : r \in OSInstallRoots}
    /\ ospackages = <<>>
    /\ candidates = <<>>
    /\ scanned = 0
    /\ product_id = ""
    /\ product = None
    /\ path = <<>>
    /\ keyword = None
    /\ item = 0
    /\ remote = None
    /\ fs \in {(<<>> :> Dir)}
    /\ fs0 = fs
    /\ io = <<[ev |-> "get", site |-> "fetch_plist", url |-> catalog_url,
               reply |-> Response(200, catalog_data)]>>
    /\ outcome = Running

NextOSInstall ==
    \/ GetOSInstallFilter
    \/ GetOSInstallStep

SpecOSInstall == InitOSInstall /\ [][NextOSInstall]_vars

-----------------------------------------------------------------------------
(* fetchpackages on its own: a MacOSProduct, a target directory, a keyword *)

InitFetch ==
    /\ argv = [output_dir |-> OutputDir, catalog_version |-> V1015,
               catalog_id |-> "PublicRelease", product_id |-> "1"]
    /\ pc = "fetchpackages"
    /\ catalog_url = None
    /\ catalog_data = Garbage
    /\ ospackages = <<>>
    /\ candidates = <<>>
    /\ scanned = 0
    /\ product_id = "1"
    /\ product \in {[Packages |-> l] : l \in PackageLists(MaxPackages)}
    /\ path = OutputDir
    /\ keyword \in Keywords
    /\ item = 0
    /\ remote = None
    /\ fs \in Worlds
    /\ fs0 = fs
    /\ io = <<>>
    /\ outcome = Running

NextFetch ==
    \/ FetchPackagesEnter
    \/ FetchNext
    \/ DownloadWrite

SpecFetch == InitFetch /\ [][NextFetch]_vars

-----------------------------------------------------------------------------
(* check_directory on its own, called again and again *)

CheckDirectoryCall ==
    /\ pc = "check_directory"
    /\ Len(io) < MaxCalls
    /\ \E p \in DirPaths :
        /\ fs' = check_directory(fs, p).fs
        /\ io' = Logged(io, DirCall(fs, p))
    /\ UNCHANGED <<argv, pc, catalog_url, catalog_data, ospackages,
                   candidates, scanned, product_id, product, path, keyword,
                   item, remote, fs0, outcome>>

InitDir ==
    /\ argv = [output_dir |-> OutputDir, catalog_version |-> V1015,
               catalog_id |-> "PublicRelease", product_id |-> ""]
    /\ pc = "check_directory"
    /\ catalog_url = None
    /\ catalog_data = Garbage
    /\ ospackages = <<>>
    /\ candidates = <<>>
    /\ scanned = 0
    /\ product_id = ""
    /\ product = None
    /\ path = <<>>
    /\ keyword = None
    /\ item = 0
    /\ remote = None
    /\ fs \in DirWorlds
    /\ fs0 = fs
    /\ io = <<>>
    /\ outcome = Running

NextDir == CheckDirectoryCall

SpecDir == InitDir /\ [][NextDir]_vars

-----------------------------------------------------------------------------
(* What the claims are stated with *)

\* the keys of a Products dict, and the place of a key in its order
KeySet(d) == {d[i].id : i \in DOMAIN d}
PlaceOf(d, id) == CHOOSE i \in DOMAIN d : d[i].id = id

\* the elements of a sequence
Range(seq) == {seq[i] : i \in DOMAIN seq}

\* v occurs in s as a run of consecutive characters
HasSub(v, s) ==
    \E off \in 0..Len(s) :
        /\ off + Len(v) <= Len(s)
        /\ \A j \in 1..Len(v) : s[off + j] = v[j]

\* the (version, channel) pairs the registry holds
Registered ==
    {<<V1015, "CustomerSeed">>, <<V1015, "DeveloperSeed">>,
     <<V1015, "PublicSeed">>, <<V1015, "PublicRelease">>,
     <<V1014, "PublicRelease">>, <<V1013, "PublicRelease">>}

\* the catalog the run received decodes and has a Products mapping
HasProducts ==
    CanParse(catalog_data) /\ "Products" \in DOMAIN parse_plist(catalog_data)

CatalogProducts == parse_plist(catalog_data).Products

\* the requests of download_file, the files it finished, and both
IsDownloadGet(e) == e.ev = "get" /\ e.site = "download_file"
IsWrote(e) == e.ev = "wrote"
DownloadGets == SelectSeq(io, IsDownloadGet)
Wrotes == SelectSeq(io, IsWrote)
DownloadEvents == SelectSeq(io, LAMBDA e : IsDownloadGet(e) \/ IsWrote(e))

\* the positions of the run that belong to the Downloading state
DownloadingPcs == {"fetchpackages", "fetch_loop", "download", "fetch_done"}

\* the file system is as it was and nothing was asked of download_file
NothingWritten ==
    /\ fs = fs0
    /\ \A i \in DOMAIN io : io[i].ev \notin {"check_directory", "wrote"}
    /\ DownloadGets = <<>>

-----------------------------------------------------------------------------
(* C1 *)

\* C1: for every (version, channel) pair that is not in the catalogs table,
\* an unknown version as well as a known version with an unknown channel,
\* constructing the SoftwareService leaves catalog_url absent and raises
\* nothing.
C1_AbsentWithoutRaising ==
    (pc # "start"
     /\ <<argv.catalog_version, argv.catalog_id>> \notin Registered)
    => (catalog_url = None /\ outcome # Uncaught("AttributeError"))

-----------------------------------------------------------------------------
(* C2 *)

C2_Case ==
    /\ argv.product_id # ""
    /\ HasProducts
    /\ argv.product_id \notin KeySet(CatalogProducts)

\* C2: a run with a non-empty product_id that is no key of the decoded
\* catalog's Products ends with exit status 1, never enters fetchpackages,
\* and writes nothing: no directory is made and no download is requested.
C2_UnknownProductExits1 ==
    C2_Case =>
        /\ pc \in {"build", "halt"}
        /\ pc = "halt" => outcome = Exit("1")
        /\ NothingWritten

C2_Witness ==
    /\ C2_Case
    /\ pc = "halt"
    /\ outcome = Exit("1")
    /\ Len(CatalogProducts) >= 1
    /\ "IndexDate" \in DOMAIN parse_plist(catalog_data)

-----------------------------------------------------------------------------
(* C4 *)

\* a candidate has been taken from the list getosinstall returned
C4_Case ==
    /\ argv.product_id = ""
    /\ product_id # ""
    /\ Len(candidates) >= 2

\* the candidate that comes first in the order of the catalog's Products
FirstInCatalog ==
    CHOOSE id \in Range(candidates) :
        \A other \in Range(candidates) :
            PlaceOf(CatalogProducts, id) <= PlaceOf(CatalogProducts, other)

-----------------------------------------------------------------------------
(* C8 *)

\* C8: a run passes CatalogResolving, ProductSelecting, Downloading and
\* Done in that order, and it ends with exit status 1 and the 'could not be
\* found' message exactly when the resolved product id is no key of the
\* catalog's Products; every other failure, a catalog without Products or
\* IndexDate among them, ends as an uncaught error.
C8_OnlyUnknownProductExits1 ==
    /\ pc \in DownloadingPcs => (product # None /\ catalog_url # None)
    /\ outcome = Exit("0") => (product # None /\ catalog_url # None)
    /\ pc = "halt" =>
        (outcome = Exit("1")
            <=> /\ HasProducts
                /\ "IndexDate" \in DOMAIN parse_plist(catalog_data)
                /\ product = None
                /\ product_id # ""
                /\ product_id \notin KeySet(CatalogProducts))

-----------------------------------------------------------------------------
(* C10 *)

\* C10: a response with a status outside 2xx stops the run with an
\* uncaught transport error at once: it is the last request of the run and
\* its body is neither decoded nor written; and no URL is requested twice
\* by the same request site.
C10_Non2xxStopsTheRun ==
    /\ \A i \in DOMAIN io :
        (io[i].ev = "get" /\ io[i].reply # ConnectionError
         /\ io[i].reply.status \notin 200..299)
        => /\ i = Len(io)
           /\ pc = "halt"
           /\ outcome.status = "uncaught"
    /\ \A i, j \in DOMAIN io :
        (i < j /\ io[i].ev = "get" /\ io[j].ev = "get"
         /\ io[i].site = io[j].site)
        => io[i].url # io[j].url

-----------------------------------------------------------------------------
(* C3 *)

\* the packages fetchpackages is to download: those whose URL has the
\* keyword in it, all of them without a keyword
Wanted ==
    SelectSeq(product.Packages,
              LAMBDA p : keyword = None \/ HasSub(keyword.txt, p.URL.txt))

WantedUrls == [i \in DOMAIN Wanted |-> Wanted[i].URL]
RequestedUrls == [i \in DOMAIN DownloadGets |-> DownloadGets[i].url]

IsPrefix(a, b) == Len(a) <= Len(b) /\ SubSeq(b, 1, Len(a)) = a

\* C3: fetchpackages calls download_file for exactly the packages whose URL
\* contains the keyword (for all of them when the keyword is None), in the
\* order of the list and once per listed package, and a download has
\* finished before the next one is requested.
C3_DownloadsInOrder ==
    /\ "Packages" \in DOMAIN product => IsPrefix(RequestedUrls, WantedUrls)
    /\ pc = "fetch_done" => RequestedUrls = WantedUrls
    /\ \A i \in DOMAIN DownloadEvents :
        /\ i % 2 = 1 => IsDownloadGet(DownloadEvents[i])
        /\ i % 2 = 0 => /\ IsWrote(DownloadEvents[i])
                        /\ DownloadEvents[i].url = DownloadEvents[i - 1].url
    /\ remote # None <=> pc = "download"

\* a keyword that takes one package of two, in the directory part of its
\* URL, and leaves the other out
C3_Witness ==
    /\ pc = "fetch_done"
    /\ keyword = Txt(BaseSystem)
    /\ product.Packages = <<Package(UrlDiag), Package(UrlInfo)>>
    /\ RequestedUrls = <<Txt(UrlInfo)>>
    /\ Len(Wrotes) = 1

-----------------------------------------------------------------------------
(* C9 *)

\* the part of a URL after its last slash
FinalSegment(url) ==
    LET slashes == {k \in 1..Len(url) : url[k] = "/"}
        last == IF slashes = {} THEN 0
                ELSE CHOOSE k \in slashes : \A m \in slashes : m <= k
    IN  SubSeq(url, last + 1, Len(url))

FilesWritten == {Wrotes[i].filename : i \in DOMAIN Wrotes}

\* the response a finished download wrote: the one its request received
BodyOf(i) == DownloadGets[i].reply.body

\* C9 as claimed: after fetchpackages the number of distinct files written
\* equals the number of packages downloaded.
C9_OneFilePerPackage ==
    pc = "fetch_done" => Cardinality(FilesWritten) = Len(Wrotes)

\* C9 as amended: after fetchpackages every downloaded package was written
\* to the file named by the final segment of its URL directly under the
\* target directory; the distinct files written are as many as the distinct
\* final segments of the downloaded URLs; each such file holds the body of
\* the last download of that name, whatever was there before.
C9_OneFilePerFinalSegment ==
    pc = "fetch_done" =>
        /\ Len(Wrotes) = Len(DownloadGets)
        /\ \A i \in DOMAIN Wrotes :
            /\ Wrotes[i].filename = path \o <<FinalSegment(Wrotes[i].url.txt)>>
            /\ Wrotes[i].filename \in DOMAIN fs
            /\ fs[Wrotes[i].filename].kind = "file"
            /\ (\A j \in DOMAIN Wrotes :
                    j > i => Wrotes[j].filename # Wrotes[i].filename)
               => fs[Wrotes[i].filename].data = BodyOf(i)
        /\ Cardinality(FilesWritten)
             = Cardinality({FinalSegment(Wrotes[i].url.txt) : i \in DOMAIN Wrotes})

\* two packages with the same final segment, written over a file that was
\* there before under that name
C9_Witness ==
    /\ pc = "fetch_done"
    /\ Len(Wrotes) = 2
    /\ Cardinality(FilesWritten) = 1
    /\ Wrotes[1].url # Wrotes[2].url
    /\ Wrotes[1].filename \in DOMAIN fs0
    /\ fs0[Wrotes[1].filename] = OldFile
    /\ fs[Wrotes[1].filename].data = BodyOf(2)

-----------------------------------------------------------------------------
(* C5 *)

\* the product has the marker path down to OSInstall and the marker there
HasMarker(p) ==
    /\ "ExtendedMetaInfo" \in DOMAIN p
    /\ "InstallAssistantPackageIdentifiers" \in DOMAIN p.ExtendedMetaInfo
    /\ "OSInstall" \in DOMAIN p.ExtendedMetaInfo.InstallAssistantPackageIdentifiers
    /\ p.ExtendedMetaInfo.InstallAssistantPackageIdentifiers.OSInstall
         = [str |-> "com.apple.mpkg.OSInstall"]

\* C5: the first stage of getosinstall keeps a product exactly when its
\* ExtendedMetaInfo.InstallAssistantPackageIdentifiers.OSInstall is the
\* string "com.apple.mpkg.OSInstall"; a product with a key of that path
\* missing, or with another value there, is dropped and nothing is raised.
C5_MarkerFilter ==
    pc # "getosinstall" =>
        /\ \A i \in DOMAIN CatalogProducts :
               CatalogProducts[i].id \in Range(ospackages)
                   <=> HasMarker(CatalogProducts[i].val)
        /\ Range(ospackages) \subseteq KeySet(CatalogProducts)
        /\ outcome.error \notin {"KeyError", "AttributeError", "TypeError"}

\* a catalog of a product with another OSInstall value and a product with
\* the marker: the second alone is kept
C5_Witness ==
    /\ pc = "osinstall_loop"
    /\ Len(CatalogProducts) = 2
    /\ "ExtendedMetaInfo" \in DOMAIN CatalogProducts[1].val
    /\ CatalogProducts[1].val.ExtendedMetaInfo
         = MarkerInfo("com.apple.pkg.InstallAssistantAuto")
    /\ ospackages = <<"2">>

-----------------------------------------------------------------------------
(* C6 *)

\* the metadata document the run received for a product, if it did
MetadataSeen(id) ==
    {io[i].reply : i \in {j \in DOMAIN io :
                             io[j].ev = "get" /\ io[j].url = MetadataUrl(id)}}

\* the product's metadata names a version with the requested one in it
VersionMatches(id) ==
    \E r \in MetadataSeen(id) :
        /\ r # ConnectionError
        /\ r.body.kind = "plist"
        /\ "CFBundleShortVersionString" \in DOMAIN r.body.doc
        /\ HasSub(argv.catalog_version, r.body.doc.CFBundleShortVersionString.txt)

\* C6: getosinstall returns exactly the OS-install products whose metadata
\* has a CFBundleShortVersionString with the requested version in it as a
\* substring, in the order of the catalog's Products; "10.15" takes
\* "10.15", "10.15.1" and "10.15.4" and leaves "10.1.5"; with no match the
\* result is the empty list and nothing is raised.
C6_VersionFilter ==
    pc = "osinstall_done" =>
        /\ outcome = Running
        /\ Range(candidates)
             = {id \in KeySet(CatalogProducts) :
                   HasMarker(Lookup(CatalogProducts, id)) /\ VersionMatches(id)}
        /\ \A i, j \in DOMAIN candidates :
               i < j => PlaceOf(CatalogProducts, candidates[i])
                          < PlaceOf(CatalogProducts, candidates[j])
        /\ \A id \in KeySet(CatalogProducts) : \A r \in MetadataSeen(id) :
               (argv.catalog_version = V1015 /\ r # ConnectionError
                /\ r.body.kind = "plist")
               => /\ r.body.doc \in {[CFBundleShortVersionString |-> Txt(v)] :
                                        v \in {V1015, V10151, V10154}}
                     => id \in Range(candidates)
                  /\ r.body.doc = [CFBundleShortVersionString |-> Txt(V1015dot)]
                     => id \notin Range(candidates)

\* "10.15" requested: a product of version 10.1.5 is left out and a
\* product of version 10.15.4 after it is returned
C6_Witness ==
    /\ pc = "osinstall_done"
    /\ argv.catalog_version = V1015
    /\ candidates = <<"2">>
    /\ Response(200, Plist([CFBundleShortVersionString |-> Txt(V1015dot)]))
         \in MetadataSeen("1")
    /\ Response(200, Plist([CFBundleShortVersionString |-> Txt(V10154)]))
         \in MetadataSeen("2")

-----------------------------------------------------------------------------
(* C7 *)

\* C7: check_directory never raises on a path that is a directory, lets
\* every error of os.makedirs other than 'already exists' through, and
\* whenever it returns the path is a directory.
C7_EnsuresDirectory ==
    \A i \in DOMAIN io :
        io[i].ev = "check_directory" =>
            /\ io[i].was \in {"dir", "rodir"} => io[i].raised = ""
            /\ io[i].err \notin {"", "EEXIST"} => io[i].raised = io[i].err
            /\ io[i].raised = "" => IsDir(fs, io[i].path)

====
